---- MODULE Spec2Model ----
(***************************************************************************)
(* Model of the lock-guarded connection supervisor of unibus               *)
(* (src/unibus/src/rabbit/connection.rs): one connection record behind an  *)
(* Arc<RwLock<State>>, the background tasks that run the connect protocol, *)
(* the retry loop, the async error callback, and the handle operations     *)
(* state_watcher / create_channel / close.                                 *)
(* LiveSpec is the same supervisor under fair scheduling with retries     *)
(* that never run out.  RegistrySpec is the mailbox-actor variant:         *)
(* RabbitClient, RabbitActor (system.rs) and the ConnectionActors          *)
(* (connection/actor.rs).                                                  *)
(* WatchSpec is the supervisor in a run that records the states of the     *)
(* record and the values its receivers read.  TopologySpec builds,         *)
(* describes and applies one topology item (topology/exchange.rs,          *)
(* queue.rs, binding.rs) against a channel that logs its calls.            *)
(***************************************************************************)
EXTENDS Integers, Sequences, FiniteSets, TLC

\* ------------------------------------------------------------------ bounds
MaxTasks == 3        \* concurrently existing tasks / in-flight handle calls
MaxConnects == 2     \* transport connect attempts made over a run
MaxErrors == 1       \* invocations of the on_error callback over a run
MaxTopology == 2     \* length of the longest topology list tried
MaxObservers == 1    \* watch receivers existing at the same time
MaxHandles == 2      \* Connection handles (clones) existing at the same time
MaxRetryConnects == 4  \* transport connect attempts of a run of retries
MaxRetryErrors == 2    \* invocations of on_error in a run of retries
MaxActors == 2         \* connection actors the registry starts
MaxMail == 2           \* messages waiting in one mailbox
MaxActorConnects == 3  \* transport connect attempts of one connection actor
MaxActorErrors == 2    \* on_error invocations on one connection actor
MaxBindings == 2       \* add_binding calls on one exchange or queue
MaxCalls == 4          \* builder calls made on one topology item

ActorIds == 1..MaxActors

TaskIds == 1..MaxTasks
ObsIds == 1..MaxObservers

\* ------------------------------------------------------- values of the code
NoConn == 0
NoErr == "none"
NoTask == 0
NoCode == 0

\* lapin::Error values; two of them render the same text
Errors == {"e1", "e2", "e3"}

\* the errors each transport operation is tried with
ConnectErrors == {"e1", "e3"}
ChannelErrors == {"e2"}
ItemErrors == {"e2", "e3"}
AsyncErrors == {"e2"}
CloseErrors == {"e3"}

\* format!("{e}") of a lapin::Error
ErrText(e) == IF e \in {"e1", "e2"} THEN "x" ELSE IF e = "e3" THEN "y" ELSE "none"

\* the names of the topology items the builder was given, in order
ItemNames == <<"q1", "ex1", "b1", "q2">>

\* reply_code values passed to close
ReplyCodes == {200}

\* inner::State
Unknown == [tag |-> "Unknown", err |-> NoErr, conn |-> NoConn]
Ready(c) == [tag |-> "Ready", err |-> NoErr, conn |-> c]
Fail(e) == [tag |-> "Fail", err |-> e, conn |-> NoConn]
Closed == [tag |-> "Closed", err |-> NoErr, conn |-> NoConn]

\* impl Into<ConnectionState> for &inner::State
IntoConnectionState(s) == [tag |-> s.tag, err |-> s.err]

\* variant: the errors are compared by identity instead of by their text
lapin_error_eq_identity(e1, e2) == e1 = e2

lapin_error_eq(e1, e2) == ErrText(e1) = ErrText(e2)

\* impl PartialEq for inner::State; two Ready values are compared by the
\* addresses of the two connection objects, which are distinct live objects
InnerStateEq(a, b) ==
    CASE a.tag = "Unknown" -> b.tag = "Unknown"
      [] a.tag = "Closed" -> b.tag = "Closed"
      [] a.tag = "Fail" -> b.tag = "Fail" /\ lapin_error_eq(a.err, b.err)
      [] a.tag = "Ready" -> FALSE

\* impl TryFrom<&inner::State> for ConnectionError
TryFromState(s) ==
    CASE s.tag = "Closed" -> [ok |-> TRUE, kind |-> "Closed", err |-> NoErr]
      [] s.tag = "Fail" -> [ok |-> TRUE, kind |-> "Fail", err |-> s.err]
      [] s.tag = "Ready" -> [ok |-> FALSE, kind |-> "none", err |-> NoErr]
      [] s.tag = "Unknown" -> [ok |-> TRUE, kind |-> "Unknown", err |-> NoErr]

\* what the environment of one run may do: how often the transport is asked
\* to connect and reports an async error, how long the topology list is, how
\* many observers and handles the user holds at once; forever: the retries
\* go on after the last counted attempt
BaseLimit == [connects |-> MaxConnects, errors |-> MaxErrors,
              topology |-> MaxTopology, observers |-> MaxObservers,
              handles |-> MaxHandles, forever |-> FALSE, trace |-> FALSE]
RetryLimit == [connects |-> MaxRetryConnects, errors |-> MaxRetryErrors,
               topology |-> 0, observers |-> 0, handles |-> 1,
               forever |-> FALSE, trace |-> FALSE]
Limits == {BaseLimit, RetryLimit}
\* a run whose retries never run out: the counters stop at their limits
LiveLimit == [connects |-> MaxConnects, errors |-> MaxErrors,
              topology |-> 1, observers |-> 0, handles |-> 1,
              forever |-> TRUE, trace |-> FALSE]
\* a run that records the state changes made and the values each receiver
\* reads
WatchLimit == [connects |-> MaxConnects, errors |-> MaxErrors,
               topology |-> 1, observers |-> MaxObservers,
               handles |-> MaxHandles, forever |-> FALSE, trace |-> TRUE]

\* ------------------------------------------- the mailbox-actor variant
\* connection/actor.rs State
StateNone == [tag |-> "None", err |-> NoErr, conn |-> NoConn]
StateReady(c) == [tag |-> "Ready", err |-> NoErr, conn |-> c]
StateError(e) == [tag |-> "Error", err |-> e, conn |-> NoConn]

\* impl Into<ConnectionState> for &State (connection/actor.rs)
StateIntoConnectionState(s) == [tag |-> s.tag, err |-> s.err]

\* impl PartialEq for ConnectionState (connection/state.rs)
ConnectionStateEq(a, b) ==
    CASE a.tag = "None" -> b.tag = "None"
      [] a.tag = "Ready" -> b.tag = "Ready"
      [] a.tag = "Error" -> b.tag = "Error" /\ lapin_error_eq(a.err, b.err)

\* messages of a ConnectionActor
Connect == [type |-> "Connect", err |-> NoErr]
Disconnected(e) == [type |-> "Disconnected", err |-> e]

\* a ConnectionActor: its fields, its mailbox, the connect futures it has
\* spawned, the sleeping tasks that will send it Connect, and the counts
\* of its transport connects and on_error invocations
NoActor == [status |-> "none", state |-> StateNone,
            state_subject |-> StateIntoConnectionState(StateNone),
            mailbox |-> <<>>, inflight |-> 0, timers |-> 0,
            attempts |-> 0, fired |-> 0]

\* ConnectionActor::new followed by start: started() notifies Connect
NewActor == [NoActor EXCEPT !.status = "started", !.mailbox = <<Connect>>]

\* ConnectionActor::set_state
set_state(act, new) ==
    LET old == StateIntoConnectionState(act.state)
        now == StateIntoConnectionState(new)
    IN [act EXCEPT !.state = new,
                   !.state_subject = IF ~ConnectionStateEq(old, now) THEN now ELSE @]

\* Addr::do_send: the message is queued unless the actor is gone
do_send(act, m) ==
    IF act.status = "started" THEN [act EXCEPT !.mailbox = Append(@, m)] ELSE act

VARIABLES
    client,         \* the RabbitClient: "held" or "dropped"
    rabbit,         \* the RabbitActor: its status and its mailbox
    system,         \* the actix System of the client thread
    actors,         \* the ConnectionActors started by the RabbitActor
    limit,          \* the environment of this run
    state,          \* State.state : inner::State
    state_watcher,  \* State.state_watcher : Option<watch::Sender>
    topology,       \* State.topology
    lock,           \* the RwLock: the task that holds the write guard
    tasks,          \* background tasks and in-flight close calls
    handles,        \* Connection handles held by the user
    dropped,        \* the State value has been dropped
    observers,      \* watch::Receiver values handed out by state_watcher
    liveConns,      \* lapin::Connection objects that exist
    handlers,       \* connections on which on_error was registered
    connects,       \* number of transport connect calls made
    fired,          \* number of on_error invocations
    declares,       \* number of successful topology item applications
    attempt,        \* locals of the connect attempt in flight
    everClosed,     \* set_inner_state(Closed) has taken effect
    last,           \* what the step just taken did and returned
    changes,        \* the states the record has had, in order (recorded runs)
    item,           \* the topology item in hand
    adds,           \* the add_binding calls made on the item in hand
    built,          \* the number of builder calls made on the item in hand
    channel,        \* the calls the last apply made on its lapin::Channel
    result          \* what the last apply or name call returned

actorVars == <<client, rabbit, system, actors>>
itemVars == <<item, adds, built, channel, result>>

vars == <<client, rabbit, system, actors, limit, state, state_watcher, topology, lock, tasks, handles, dropped,
          observers, liveConns, handlers, connects, fired, declares,
          attempt, everClosed, last, changes, item, adds, built, channel, result>>

NoTaskRec == [kind |-> "none", pc |-> "none", e |-> NoErr, code |-> NoCode]
\* a receiver that has not read yet
NoValue == [tag |-> "none", err |-> NoErr]
NoObserver == [alive |-> FALSE, seen |-> 0, val |-> NoValue, pre |-> FALSE,
               got |-> <<>>]
NoAttempt == [outcome |-> "none", conn |-> NoConn, chans |-> 0,
              applied |-> <<>>, err |-> NoErr]
NoSet == [called |-> FALSE, arg |-> Unknown, old |-> Unknown, sent |-> 0]
\* op: the operation, ret: what it returned, input: what the transport
\* answered, att: the connect attempt it ended, code / sent: the reply code
\* given / the transport calls made, set: its last set_inner_state call,
\* by: the kind of task that ran connect
NoEvent == [op |-> "none", ret |-> "none", input |-> "none", att |-> NoAttempt,
            code |-> NoCode, sent |-> 0, set |-> NoSet, by |-> "none"]
Event(op, ret) == [NoEvent EXCEPT !.op = op, !.ret = ret]

\* watch::Sender::is_closed: no receiver is left
Receivers == {o \in ObsIds : observers[o].alive}

\* variant: the test of is_closed is inverted
is_closed_inverted == Receivers # {}

is_closed == Receivers = {}

\* watch::Sender::send_replace: stores the value and marks it unseen for
\* every receiver
\* variant: the receivers are notified but the old value is kept
send_replace_keep(w, v) == [w EXCEPT !.version = @ + 1]

send_replace(w, v) == [w EXCEPT !.value = v, !.version = @ + 1]

\* the record as a handler sees it: the State fields it writes, the
\* connection objects that exist and the trace of its set_inner_state call
Rec == [state |-> state, w |-> state_watcher, live |-> liveConns,
        set |-> NoSet, closed |-> everClosed, log |-> changes]

\* variant: the value that is replaced keeps its connection alive
set_inner_state_leak(r, new) ==
    IF InnerStateEq(r.state, new)
    THEN [r EXCEPT !.set = [called |-> TRUE, arg |-> new, old |-> r.state,
                            sent |-> 0]]
    ELSE LET send == r.w.some /\ ~is_closed
             w2 == IF send THEN send_replace(r.w, IntoConnectionState(new)) ELSE r.w
         IN [state |-> new,
             w |-> w2,
             live |-> r.live \cup (IF new.conn = NoConn THEN {} ELSE {new.conn}),
             set |-> [called |-> TRUE, arg |-> new, old |-> r.state,
                      sent |-> w2.version - r.w.version],
             closed |-> r.closed \/ new.tag = "Closed",
             log |-> IF limit.trace THEN Append(r.log, IntoConnectionState(new))
                     ELSE r.log]

\* State::set_inner_state
set_inner_state(r, new) ==
    IF InnerStateEq(r.state, new)
    THEN [r EXCEPT !.set = [called |-> TRUE, arg |-> new, old |-> r.state,
                            sent |-> 0]]
    ELSE LET send == r.w.some /\ ~is_closed
             w2 == IF send THEN send_replace(r.w, IntoConnectionState(new)) ELSE r.w
         IN [state |-> new,
             w |-> w2,
             live |-> (r.live \ {r.state.conn}) \cup
                      (IF new.conn = NoConn THEN {} ELSE {new.conn}),
             set |-> [called |-> TRUE, arg |-> new, old |-> r.state,
                      sent |-> w2.version - r.w.version],
             closed |-> r.closed \/ new.tag = "Closed",
             log |-> IF limit.trace THEN Append(r.log, IntoConnectionState(new))
                     ELSE r.log]

\* variant: the handler task owns a clone from the moment it is spawned
Holds_pending(tk) == tk.kind \in {"build", "loop", "close", "cb"}

\* Arc::strong_count: the handles plus the tasks that own a clone
Holds(tk) == tk.kind \in {"build", "loop", "close"}
             \/ (tk.kind = "cb" /\ tk.pc # "upgrade")
Strong(tks, h) == h + Cardinality({t \in TaskIds : Holds(tks[t])})

\* variant: the drop resets the record instead of closing it
DropState_reset(r) == set_inner_state(r, Unknown)

\* impl Drop for State
DropState(r) == set_inner_state(r, Closed)

\* the effect of a handler on the record, followed by the drop of the State
\* when the handler released the last strong reference
Commit(tks, h, r, ev) ==
    LET gone == ~dropped /\ Strong(tks, h) = 0
        r2 == IF gone THEN DropState(r) ELSE r
    IN /\ tasks' = tks
       /\ handles' = h
       /\ dropped' = (dropped \/ gone)
       /\ state' = r2.state
       /\ state_watcher' = r2.w
       /\ liveConns' = r2.live
       /\ everClosed' = r2.closed
       /\ last' = [ev EXCEPT !.set = r2.set]
       /\ changes' = r2.log

\* variant: the write lock is not taken
LockFree_open == TRUE

\* the write guard can be acquired
LockFree == lock = NoTask
FreeSlots == {t \in TaskIds : tasks[t].kind = "none"}
FreeSlot == CHOOSE t \in FreeSlots : \A u \in FreeSlots : t <= u

\* system::start: the thread runs a System with a RabbitActor and the caller
\* holds the RabbitClient
Started ==
    /\ client = "held"
    /\ rabbit = [status |-> "started", mailbox |-> <<>>]
    /\ system = "running"
    /\ actors = [a \in ActorIds |-> NoActor]

Start ==
    /\ state = Unknown
    /\ state_watcher = [some |-> FALSE, value |-> IntoConnectionState(Unknown),
                        version |-> 0]
    /\ topology \in {SubSeq(ItemNames, 1, n) : n \in 0..limit.topology}
    /\ lock = NoTask
    /\ tasks = [t \in TaskIds |->
                  IF t = 1 THEN [NoTaskRec EXCEPT !.kind = "build", !.pc = "connect"]
                  ELSE NoTaskRec]
    /\ handles = 1
    /\ dropped = FALSE
    /\ observers = [o \in ObsIds |-> NoObserver]
    /\ liveConns = {}
    /\ handlers = {}
    /\ connects = 0
    /\ fired = 0
    /\ declares = 0
    /\ attempt = NoAttempt
    /\ everClosed = FALSE
    /\ last = NoEvent
    /\ changes = IF limit.trace THEN <<IntoConnectionState(Unknown)>> ELSE <<>>

\* no topology item has been built yet
NoItem == [type |-> "none"]
NoResult == [op |-> "none"]
Unbuilt ==
    /\ item = NoItem
    /\ adds = <<>>
    /\ built = 0
    /\ channel = <<>>
    /\ result = NoResult

Init == limit \in Limits /\ Start /\ Started /\ Unbuilt

\* ------------------------------------------------- Connector::connect
\* what the caller of connect does with its result: build ends or calls
\* reconnect, the retry loop ends or sleeps again, the error callback ends
\* or spawns the task that calls reconnect
\* variant: build gives up when its connect fails
AfterConnect_giveup(tk, ret) ==
    IF ret THEN NoTaskRec
    ELSE IF tk.kind = "loop" THEN [tk EXCEPT !.pc = "sleep"]
    ELSE IF tk.kind = "build" THEN NoTaskRec
    ELSE [tk EXCEPT !.pc = "reconnect"]

\* variant: the error callback tries again at once after a failure
AfterConnect_spin(tk, ret) ==
    IF ret THEN NoTaskRec
    ELSE IF tk.kind = "loop" THEN [tk EXCEPT !.pc = "sleep"]
    ELSE IF tk.kind = "cb" THEN [tk EXCEPT !.pc = "connect"]
    ELSE [tk EXCEPT !.pc = "reconnect"]

AfterConnect(tk, ret) ==
    IF ret THEN NoTaskRec
    ELSE IF tk.kind = "loop" THEN [tk EXCEPT !.pc = "sleep"]
    ELSE [tk EXCEPT !.pc = "reconnect"]

\* variant: the loop goes on to the next item after a failure
apply_continue(att, res) ==
    LET i == Len(att.applied) + 1
    IN [att EXCEPT !.applied = Append(@, topology[i]),
                   !.err = IF res = "ok" THEN @ ELSE res,
                   !.outcome = IF i = Len(topology)
                               THEN (IF att.err = NoErr /\ res = "ok" THEN "applied"
                                     ELSE "topology_failed")
                               ELSE "running"]

\* one iteration of the loop of apply: the next item of the list is applied
\* with result res ("ok" or the error of the item)
apply(att, res) ==
    LET i == Len(att.applied) + 1
    IN [att EXCEPT !.applied = Append(@, topology[i]),
                   !.err = IF res = "ok" THEN NoErr ELSE res,
                   !.outcome = IF res # "ok" THEN "topology_failed"
                               ELSE IF i = Len(topology) THEN "applied"
                               ELSE "running"]

\* variant: the new connection is kept when the attempt fails
ConnectFailed_keep(t, att, res) ==
    LET r == set_inner_state(Rec, Fail(att.err))
    IN /\ Commit([tasks EXCEPT ![t] = AfterConnect(tasks[t], FALSE)], handles, r,
                 [Event("connect", "false") EXCEPT !.att = att, !.input = res,
                                                   !.by = tasks[t].kind])
       /\ lock' = NoTask
       /\ attempt' = NoAttempt
       /\ UNCHANGED handlers

\* the Err arms of connect: set Fail, drop the new connection, return false
ConnectFailed(t, att, res) ==
    LET r0 == [Rec EXCEPT !.live = @ \ {att.conn}]
        r == set_inner_state(r0, Fail(att.err))
    IN /\ Commit([tasks EXCEPT ![t] = AfterConnect(tasks[t], FALSE)], handles, r,
                 [Event("connect", "false") EXCEPT !.att = att, !.input = res,
                                                   !.by = tasks[t].kind])
       /\ lock' = NoTask
       /\ attempt' = NoAttempt
       /\ UNCHANGED handlers

\* the tail of connect: register on_error, set Ready, return true
ConnectSucceeded(t, att, res) ==
    LET r0 == [Rec EXCEPT !.live = @ \cup {att.conn}]
        r == set_inner_state(r0, Ready(att.conn))
    IN /\ Commit([tasks EXCEPT ![t] = AfterConnect(tasks[t], TRUE)], handles, r,
                 [Event("connect", "true")
                    EXCEPT !.att = [att EXCEPT !.outcome = "ready"], !.input = res,
                           !.by = tasks[t].kind])
       /\ lock' = NoTask
       /\ handlers' = handlers \cup {att.conn}
       /\ attempt' = NoAttempt

\* the body of connect continues after an await: it fails, succeeds or goes
\* on to its next await at pc
ConnectStep(t, att, pc, res) ==
    IF att.outcome \in {"transport_failed", "channel_failed", "topology_failed"}
    THEN ConnectFailed(t, att, res)
    ELSE IF att.outcome = "applied"
    THEN ConnectSucceeded(t, att, res)
    ELSE /\ Commit([tasks EXCEPT ![t].pc = pc], handles,
                   [Rec EXCEPT !.live = @ \cup ({att.conn} \ {NoConn})],
                   [Event("connect_step", "none") EXCEPT !.input = res])
         /\ attempt' = att
         /\ UNCHANGED <<lock, handlers>>

\* connect finds Closed or Ready under the write lock and returns true
ConnectNoop(t) ==
    /\ tasks[t].pc = "connect"
    /\ LockFree
    /\ state.tag \in {"Closed", "Ready"}
    /\ Commit([tasks EXCEPT ![t] = AfterConnect(tasks[t], TRUE)], handles, Rec,
              [Event("connect", "true") EXCEPT !.by = tasks[t].kind])
    /\ UNCHANGED <<itemVars, actorVars, limit, topology, lock, observers, handlers, connects,
                   fired, declares, attempt>>

\* variant: connect does not look at the state before it calls the transport
ConnectBegin_any(t) ==
    /\ tasks[t].pc = "connect"
    /\ LockFree
    /\ connects < limit.connects \/ limit.forever
    /\ lock' = t
    /\ connects' = (IF connects < limit.connects THEN connects + 1 ELSE connects)
    /\ attempt' = [NoAttempt EXCEPT !.outcome = "running"]
    /\ Commit([tasks EXCEPT ![t].pc = "transport"], handles, Rec,
              Event("transport_connect", "none"))
    /\ UNCHANGED <<itemVars, actorVars, limit, topology, observers, handlers, fired, declares>>

\* connect takes the write lock, finds Unknown or Fail and calls the
\* transport's connect
ConnectBegin(t) ==
    /\ tasks[t].pc = "connect"
    /\ LockFree
    /\ state.tag \notin {"Closed", "Ready"}
    /\ connects < limit.connects \/ limit.forever
    /\ lock' = t
    /\ connects' = (IF connects < limit.connects THEN connects + 1 ELSE connects)
    /\ attempt' = [NoAttempt EXCEPT !.outcome = "running"]
    /\ Commit([tasks EXCEPT ![t].pc = "transport"], handles, Rec,
              Event("transport_connect", "none"))
    /\ UNCHANGED <<itemVars, actorVars, limit, topology, observers, handlers, fired, declares>>

\* variant: the topology is not applied on the new connection
transport_connect_skip(att, res) ==
    IF res # "ok"
    THEN [att EXCEPT !.outcome = "transport_failed", !.err = res]
    ELSE [att EXCEPT !.conn = connects, !.outcome = "applied"]

\* the result of the transport connect: an error, or the new connection; with
\* an empty topology nothing is opened or applied
transport_connect(att, res) ==
    IF res # "ok"
    THEN [att EXCEPT !.outcome = "transport_failed", !.err = res]
    ELSE [att EXCEPT !.conn = connects,
                     !.outcome = IF Len(topology) > 0 THEN "running" ELSE "applied"]

TransportConnectErr(t, e) ==
    /\ tasks[t].pc = "transport"
    /\ ConnectStep(t, transport_connect(attempt, e), "channel", e)
    /\ UNCHANGED <<itemVars, actorVars, limit, topology, observers, connects, fired, declares>>

TransportConnectOk(t) ==
    /\ tasks[t].pc = "transport"
    /\ ConnectStep(t, transport_connect(attempt, "ok"), "channel", "ok")
    /\ UNCHANGED <<itemVars, actorVars, limit, topology, observers, connects, fired, declares>>

\* the result of c.create_channel() inside connect
open_channel(att, res) ==
    IF res # "ok"
    THEN [att EXCEPT !.outcome = "channel_failed", !.err = res]
    ELSE [att EXCEPT !.chans = @ + 1]

OpenChannelErr(t, e) ==
    /\ tasks[t].pc = "channel"
    /\ ConnectStep(t, open_channel(attempt, e), "apply", e)
    /\ UNCHANGED <<itemVars, actorVars, limit, topology, observers, connects, fired, declares>>

OpenChannelOk(t) ==
    /\ tasks[t].pc = "channel"
    /\ ConnectStep(t, open_channel(attempt, "ok"), "apply", "ok")
    /\ UNCHANGED <<itemVars, actorVars, limit, topology, observers, connects, fired, declares>>

ApplyItemErr(t, e) ==
    /\ tasks[t].pc = "apply"
    /\ ConnectStep(t, apply(attempt, e), "apply", e)
    /\ UNCHANGED <<itemVars, actorVars, limit, topology, observers, connects, fired, declares>>

ApplyItemOk(t) ==
    /\ tasks[t].pc = "apply"
    /\ declares' = (IF declares < limit.connects * limit.topology
                    THEN declares + 1 ELSE declares)
    /\ ConnectStep(t, apply(attempt, "ok"), "apply", "ok")
    /\ UNCHANGED <<itemVars, actorVars, limit, topology, observers, connects, fired>>

\* ------------------------------------------------ Connector::reconnect
\* reads the interval under the read lock and spawns the retry loop
Reconnect(t) ==
    /\ tasks[t].pc = "reconnect"
    /\ LockFree
    /\ Commit([tasks EXCEPT ![t] = [@ EXCEPT !.kind = "loop", !.pc = "sleep"]],
              handles, Rec, Event("reconnect", "none"))
    /\ UNCHANGED <<itemVars, actorVars, limit, topology, lock, observers, handlers, connects,
                   fired, declares, attempt>>

\* sleep(reconnect) of the retry loop is over
Wake(t) ==
    /\ tasks[t].kind = "loop"
    /\ tasks[t].pc = "sleep"
    /\ Commit([tasks EXCEPT ![t].pc = "connect"], handles, Rec,
              Event("wake", "none"))
    /\ UNCHANGED <<itemVars, actorVars, limit, topology, lock, observers, handlers, connects,
                   fired, declares, attempt>>

\* ------------------------------------------- the on_error callback
\* the transport reports error e on the connection the record holds (any
\* number of times, up to MaxErrors over a run); the callback spawns its
\* task, which owns a Weak to the record
ErrorFire(e) ==
    /\ state.tag = "Ready"
    /\ state.conn \in handlers
    /\ fired < limit.errors
    /\ FreeSlots # {}
    /\ fired' = fired + 1
    /\ Commit([tasks EXCEPT ![FreeSlot] =
                  [NoTaskRec EXCEPT !.kind = "cb", !.pc = "upgrade", !.e = e]],
              handles, Rec, Event("on_error", "none"))
    /\ UNCHANGED <<itemVars, actorVars, limit, topology, lock, observers, handlers, connects,
                   declares, attempt>>

\* st.upgrade() yields the record: the task now owns a strong reference
Upgrade(t) ==
    /\ tasks[t].kind = "cb"
    /\ tasks[t].pc = "upgrade"
    /\ ~dropped
    /\ Commit([tasks EXCEPT ![t].pc = "cb_set"], handles, Rec,
              Event("upgrade", "some"))
    /\ UNCHANGED <<itemVars, actorVars, limit, topology, lock, observers, handlers, connects,
                   fired, declares, attempt>>

\* st.upgrade() yields None: the record is gone and the task ends
UpgradeNone(t) ==
    /\ tasks[t].kind = "cb"
    /\ tasks[t].pc = "upgrade"
    /\ dropped
    /\ Commit([tasks EXCEPT ![t] = NoTaskRec], handles, Rec,
              Event("upgrade", "none"))
    /\ UNCHANGED <<itemVars, actorVars, limit, topology, lock, observers, handlers, connects,
                   fired, declares, attempt>>

\* the block that takes the write lock and sets Fail(e); connect follows
CallbackSetFail(t) ==
    /\ tasks[t].pc = "cb_set"
    /\ LockFree
    /\ Commit([tasks EXCEPT ![t].pc = "connect"], handles,
              set_inner_state(Rec, Fail(tasks[t].e)), Event("callback_set", "none"))
    /\ UNCHANGED <<itemVars, actorVars, limit, topology, lock, observers, handlers, connects,
                   fired, declares, attempt>>

\* ------------------------------------------------- Connection::close
\* what close does once the transport close has returned res: `?` returns
\* the error, otherwise Closed is set
close_result(r, res) ==
    IF res = "ok" THEN set_inner_state(r, Closed) ELSE r

\* close on a record that is not Ready
CloseNotReady(code) ==
    /\ handles > 0
    /\ LockFree
    /\ state.tag # "Ready"
    /\ Commit(tasks, handles - 1, set_inner_state(Rec, Closed),
              [Event("close", "ok") EXCEPT !.code = code])
    /\ UNCHANGED <<itemVars, actorVars, limit, topology, lock, observers, handlers, connects,
                   fired, declares, attempt>>

\* close on a Ready record: takes the write lock and sends the transport close
CloseBegin(code) ==
    /\ handles > 0
    /\ LockFree
    /\ state.tag = "Ready"
    /\ FreeSlots # {}
    /\ lock' = FreeSlot
    /\ Commit([tasks EXCEPT ![FreeSlot] =
                  [NoTaskRec EXCEPT !.kind = "close", !.pc = "closing", !.code = code]],
              handles - 1, Rec,
              [Event("transport_close", "none") EXCEPT !.code = code, !.sent = code])
    /\ UNCHANGED <<itemVars, actorVars, limit, topology, observers, handlers, connects,
                   fired, declares, attempt>>

\* the transport close returns res ("ok" or an error)
CloseTransport(t, res) ==
    /\ tasks[t].pc = "closing"
    /\ lock' = NoTask
    /\ Commit([tasks EXCEPT ![t] = NoTaskRec], handles, close_result(Rec, res),
              [Event("close", IF res = "ok" THEN "ok" ELSE "err")
                 EXCEPT !.code = tasks[t].code, !.sent = tasks[t].code,
                        !.input = res])
    /\ UNCHANGED <<itemVars, actorVars, limit, topology, observers, handlers, connects,
                   fired, declares, attempt>>

\* ---------------------------------------- Connection::create_channel
\* variant: the transport is called whatever the state is
create_channel_always(s, res) ==
    [called |-> 1, ret |-> IF res = "ok" /\ s.tag = "Ready" THEN "ok" ELSE "err"]

\* what create_channel returns and whether it calls the transport, given the
\* result res the transport's create_channel would give
create_channel(s, res) ==
    IF s.tag = "Ready"
    THEN [called |-> 1, ret |-> IF res = "ok" THEN "ok" ELSE "err"]
    ELSE [called |-> 0, ret |-> IF TryFromState(s).ok THEN "err" ELSE "panic"]

\* the call runs under the read lock, which is granted when no task holds
\* the write guard; it writes nothing, so the time the transport takes to
\* answer is not a step of its own
CreateChannel(res) ==
    /\ handles > 0
    /\ LockFree
    /\ LET c == create_channel(state, res)
       IN Commit(tasks, handles, Rec,
                 [Event("create_channel", c.ret)
                    EXCEPT !.sent = c.called,
                           !.input = IF c.called = 1 THEN res ELSE "none"])
    /\ UNCHANGED <<itemVars, actorVars, limit, topology, lock, observers, handlers, connects,
                   fired, declares, attempt>>

\* ----------------------------------------- Connection::state_watcher
FreeObs == {o \in ObsIds : ~observers[o].alive /\ o <= limit.observers}

\* the channel state_watcher subscribes to: the existing one, or a new one
\* holding the current state
watch_channel(w, s) ==
    IF w.some THEN w
    ELSE [some |-> TRUE, value |-> IntoConnectionState(s), version |-> 0]

StateWatcher(o) ==
    /\ handles > 0
    /\ LockFree
    /\ o \in FreeObs
    /\ \A p \in FreeObs : o <= p
    /\ LET w == watch_channel(state_watcher, state)
       IN /\ observers' = [observers EXCEPT ![o] =
                 [alive |-> TRUE, seen |-> w.version, val |-> NoValue,
                  pre |-> state = Unknown, got |-> <<>>]]
          /\ Commit(tasks, handles, [Rec EXCEPT !.w = w],
                    Event("state_watcher", "none"))
    /\ UNCHANGED <<itemVars, actorVars, limit, topology, lock, handlers, connects,
                   fired, declares, attempt>>

\* watch::Receiver::borrow_and_update
ObserverRead(o) ==
    /\ observers[o].alive
    /\ observers[o].seen # state_watcher.version \/ observers[o].val = NoValue
    /\ observers' = [observers EXCEPT
           ![o].val = state_watcher.value,
           ![o].seen = state_watcher.version,
           ![o].got = IF limit.trace THEN Append(@, state_watcher.value) ELSE @]
    /\ last' = Event("read", "none")
    /\ UNCHANGED <<itemVars, actorVars, limit, state, state_watcher, topology, lock, tasks, handles, dropped,
                   liveConns, handlers, connects, fired, declares,
                   attempt, everClosed, changes>>

ObserverDrop(o) ==
    /\ observers[o].alive
    /\ observers' = [observers EXCEPT ![o] = NoObserver]
    /\ last' = Event("drop_observer", "none")
    /\ UNCHANGED <<itemVars, actorVars, limit, state, state_watcher, topology, lock, tasks, handles, dropped,
                   liveConns, handlers, connects, fired, declares,
                   attempt, everClosed, changes>>

\* ------------------------------------------------ Connection handles
InFlightHandles == Cardinality({t \in TaskIds : tasks[t].kind = "close"})

CloneHandle ==
    /\ handles > 0
    /\ handles + InFlightHandles < limit.handles
    /\ Commit(tasks, handles + 1, Rec, Event("clone", "none"))
    /\ UNCHANGED <<itemVars, actorVars, limit, topology, lock, observers, handlers, connects,
                   fired, declares, attempt>>

DropHandle ==
    /\ handles > 0
    /\ Commit(tasks, handles - 1, Rec, Event("drop", "none"))
    /\ UNCHANGED <<itemVars, actorVars, limit, topology, lock, observers, handlers, connects,
                   fired, declares, attempt>>

Next ==
    \/ \E t \in TaskIds : ConnectNoop(t)
    \/ \E t \in TaskIds : ConnectBegin(t)
    \/ \E t \in TaskIds, e \in ConnectErrors : TransportConnectErr(t, e)
    \/ \E t \in TaskIds : TransportConnectOk(t)
    \/ \E t \in TaskIds, e \in ChannelErrors : OpenChannelErr(t, e)
    \/ \E t \in TaskIds : OpenChannelOk(t)
    \/ \E t \in TaskIds, e \in ItemErrors : ApplyItemErr(t, e)
    \/ \E t \in TaskIds : ApplyItemOk(t)
    \/ \E t \in TaskIds : Reconnect(t)
    \/ \E t \in TaskIds : Wake(t)
    \/ \E e \in AsyncErrors : ErrorFire(e)
    \/ \E t \in TaskIds : Upgrade(t)
    \/ \E t \in TaskIds : UpgradeNone(t)
    \/ \E t \in TaskIds : CallbackSetFail(t)
    \/ \E code \in ReplyCodes : CloseNotReady(code)
    \/ \E code \in ReplyCodes : CloseBegin(code)
    \/ \E t \in TaskIds, res \in {"ok"} \cup CloseErrors : CloseTransport(t, res)
    \/ \E res \in {"ok"} \cup ChannelErrors : CreateChannel(res)
    \/ \E o \in ObsIds : StateWatcher(o)
    \/ \E o \in ObsIds : ObserverRead(o)
    \/ \E o \in ObsIds : ObserverDrop(o)
    \/ CloneHandle
    \/ DropHandle

Spec == Init /\ [][Next]_vars

\* --------------------------------- the registry and its connection actors
recordVars == <<limit, state, state_watcher, topology, lock, tasks, handles,
                dropped, observers, liveConns, handlers, connects, fired,
                declares, attempt, everClosed, last, changes>>

FreeActors == {a \in ActorIds : actors[a].status = "none"}
Opens == Cardinality({i \in 1..Len(rabbit.mailbox) : rabbit.mailbox[i] = "Open"})
Running(a) == actors[a].status = "started" /\ system # "stopped"

\* RabbitClient::connect sends Open to the RabbitActor
ClientConnect ==
    /\ client = "held"
    /\ rabbit.status = "started"
    /\ Len(rabbit.mailbox) < MaxMail
    /\ Opens < Cardinality(FreeActors)
    /\ rabbit' = [rabbit EXCEPT !.mailbox = Append(@, "Open")]
    /\ UNCHANGED <<client, system, actors, recordVars, itemVars>>

\* Drop for RabbitClient sends Close
ClientDrop ==
    /\ client = "held"
    /\ client' = "dropped"
    /\ rabbit' = IF rabbit.status = "started"
                 THEN [rabbit EXCEPT !.mailbox = Append(@, "Close")] ELSE rabbit
    /\ UNCHANGED <<system, actors, recordVars, itemVars>>

\* Handler<Open> for RabbitActor starts a ConnectionActor
HandleOpen ==
    /\ rabbit.status = "started"
    /\ system # "stopped"
    /\ rabbit.mailbox # <<>>
    /\ Head(rabbit.mailbox) = "Open"
    /\ rabbit' = [rabbit EXCEPT !.mailbox = Tail(@)]
    /\ LET a == CHOOSE a \in FreeActors : \A b \in FreeActors : a <= b
       IN actors' = [actors EXCEPT ![a] = NewActor]
    /\ UNCHANGED <<client, system, recordVars, itemVars>>

\* Handler<Close> for RabbitActor calls ctx.stop(); stopped() then asks the
\* System to stop
HandleClose ==
    /\ rabbit.status = "started"
    /\ system # "stopped"
    /\ rabbit.mailbox # <<>>
    /\ Head(rabbit.mailbox) = "Close"
    /\ rabbit' = [status |-> "stopped", mailbox |-> <<>>]
    /\ system' = "stopping"
    /\ UNCHANGED <<client, actors, recordVars, itemVars>>

\* the System stops: its arbiter ends, the actors, their futures and the
\* sleeping tasks are dropped with the connections they own
SystemStops ==
    /\ system = "stopping"
    /\ system' = "stopped"
    /\ actors' = [a \in ActorIds |->
                    IF actors[a].status = "started"
                    THEN [actors[a] EXCEPT !.status = "dropped", !.state = StateNone,
                                           !.mailbox = <<>>, !.inflight = 0,
                                           !.timers = 0]
                    ELSE actors[a]]
    /\ UNCHANGED <<client, rabbit, recordVars, itemVars>>

\* Handler<Connect>: nothing when Ready, otherwise the connect future is
\* spawned in the actor's context
HandleConnect(a) ==
    /\ Running(a)
    /\ actors[a].mailbox # <<>>
    /\ Head(actors[a].mailbox) = Connect
    /\ IF actors[a].state.tag = "Ready"
       THEN actors' = [actors EXCEPT ![a].mailbox = Tail(@)]
       ELSE /\ actors[a].attempts < MaxActorConnects
            /\ actors' = [actors EXCEPT ![a].mailbox = Tail(@),
                                        ![a].inflight = @ + 1,
                                        ![a].attempts = @ + 1]
    /\ UNCHANGED <<client, rabbit, system, recordVars, itemVars>>

\* the closure mapped over a connect future that resolved to Ok(c):
\* on_error is registered and the state is Ready(c)
ConnectResolvedOk(a) ==
    /\ Running(a)
    /\ actors[a].inflight > 0
    /\ actors' = [actors EXCEPT ![a] =
          set_state([actors[a] EXCEPT !.inflight = @ - 1],
                    StateReady(actors[a].attempts))]
    /\ UNCHANGED <<client, rabbit, system, recordVars, itemVars>>

\* the closure mapped over a connect future that resolved to Err(e): the
\* state is Error(e) and a task is spawned that sleeps and sends Connect
ConnectResolvedErr(a, e) ==
    /\ Running(a)
    /\ actors[a].inflight > 0
    /\ actors' = [actors EXCEPT ![a] =
          set_state([actors[a] EXCEPT !.inflight = @ - 1, !.timers = @ + 1],
                    StateError(e))]
    /\ UNCHANGED <<client, rabbit, system, recordVars, itemVars>>

\* the sleep of a retry task is over: it sends Connect
RetryTimer(a) ==
    /\ Running(a)
    /\ actors[a].timers > 0
    /\ Len(actors[a].mailbox) < MaxMail
    /\ actors' = [actors EXCEPT ![a] =
          do_send([actors[a] EXCEPT !.timers = @ - 1], Connect)]
    /\ UNCHANGED <<client, rabbit, system, recordVars, itemVars>>

\* the on_error callback of the connection the actor holds sends
\* Disconnected(e)
TransportError(a, e) ==
    /\ Running(a)
    /\ actors[a].state.tag = "Ready"
    /\ actors[a].fired < MaxActorErrors
    /\ Len(actors[a].mailbox) < MaxMail
    /\ actors' = [actors EXCEPT ![a] =
          do_send([actors[a] EXCEPT !.fired = @ + 1], Disconnected(e))]
    /\ UNCHANGED <<client, rabbit, system, recordVars, itemVars>>

\* Handler<Disconnected>: the state is Error(e) and Connect is sent to self
HandleDisconnected(a) ==
    /\ Running(a)
    /\ actors[a].mailbox # <<>>
    /\ Head(actors[a].mailbox).type = "Disconnected"
    /\ actors' = [actors EXCEPT ![a] =
          do_send(set_state([actors[a] EXCEPT !.mailbox = Tail(@)],
                            StateError(Head(actors[a].mailbox).err)),
                  Connect)]
    /\ UNCHANGED <<client, rabbit, system, recordVars, itemVars>>

RegistryNext ==
    \/ ClientConnect
    \/ ClientDrop
    \/ HandleOpen
    \/ HandleClose
    \/ SystemStops
    \/ \E a \in ActorIds : HandleConnect(a)
    \/ \E a \in ActorIds : ConnectResolvedOk(a)
    \/ \E a \in ActorIds, e \in ConnectErrors : ConnectResolvedErr(a, e)
    \/ \E a \in ActorIds : RetryTimer(a)
    \/ \E a \in ActorIds, e \in AsyncErrors : TransportError(a, e)
    \/ \E a \in ActorIds : HandleDisconnected(a)

\* the registry with a lock-guarded record that nobody uses
RegistryInit == limit = BaseLimit /\ Start /\ topology = <<>> /\ Started /\ Unbuilt

RegistrySpec == RegistryInit /\ [][RegistryNext]_vars

\* ------------------------------------------- the supervisor under fairness
\* a record with one handle and no observer, whose retries never run out
LiveInit == limit = LiveLimit /\ Start /\ Started /\ Unbuilt

LiveNext ==
    \/ \E t \in TaskIds : ConnectNoop(t)
    \/ \E t \in TaskIds : ConnectBegin(t)
    \/ \E t \in TaskIds, e \in ConnectErrors : TransportConnectErr(t, e)
    \/ \E t \in TaskIds : TransportConnectOk(t)
    \/ \E t \in TaskIds, e \in ChannelErrors : OpenChannelErr(t, e)
    \/ \E t \in TaskIds : OpenChannelOk(t)
    \/ \E t \in TaskIds, e \in ItemErrors : ApplyItemErr(t, e)
    \/ \E t \in TaskIds : ApplyItemOk(t)
    \/ \E t \in TaskIds : Reconnect(t)
    \/ \E t \in TaskIds : Wake(t)
    \/ \E e \in AsyncErrors : ErrorFire(e)
    \/ \E t \in TaskIds : Upgrade(t)
    \/ \E t \in TaskIds : UpgradeNone(t)
    \/ \E t \in TaskIds : CallbackSetFail(t)
    \/ \E code \in ReplyCodes : CloseNotReady(code)
    \/ \E code \in ReplyCodes : CloseBegin(code)
    \/ \E t \in TaskIds, res \in {"ok"} \cup CloseErrors : CloseTransport(t, res)
    \/ DropHandle

\* a spawned task is scheduled, a sleep ends and an awaited transport call
\* returns
TaskRuns(t) ==
    \/ Reconnect(t)
    \/ Wake(t)
    \/ Upgrade(t)
    \/ UpgradeNone(t)
    \/ TransportConnectOk(t)
    \/ OpenChannelOk(t)
    \/ ApplyItemOk(t)
    \/ \E e \in ConnectErrors : TransportConnectErr(t, e)
    \/ \E e \in ChannelErrors : OpenChannelErr(t, e)
    \/ \E e \in ItemErrors : ApplyItemErr(t, e)
    \/ \E res \in {"ok"} \cup CloseErrors : CloseTransport(t, res)

\* a task that waits for the write guard of the RwLock gets it: the lock
\* queues its waiters
TaskLocks(t) == ConnectNoop(t) \/ ConnectBegin(t) \/ CallbackSetFail(t)

LiveSpec ==
    /\ LiveInit
    /\ [][LiveNext]_vars
    /\ \A t \in TaskIds : WF_vars(TaskRuns(t)) /\ SF_vars(TaskLocks(t))

\* ------------------------------------------- the supervisor, recorded
\* the same supervisor in a run that records its state changes and the reads
\* of its receivers
WatchInit == limit = WatchLimit /\ Start /\ Started /\ Unbuilt

WatchSpec == WatchInit /\ [][Next]_vars

\* ------------------------------------------------------ topology items
\* Option<T> and Option::unwrap_or_default
None == [some |-> FALSE]
Some(v) == [some |-> TRUE, v |-> v]
unwrap_or_default(o, d) == IF o.some THEN o.v ELSE d

\* the values the builder calls are tried with
EntityNames == {"a", "b"}
SourceNames == {"s1", "s2"}
RoutingKeys == {"rk"}
AlternateNames == {"alt"}
OtherName == "zz"

\* ExchangeKind and its Debug rendering
Direct == [variant |-> "Direct"]
Fanout == [variant |-> "Fanout"]
Custom(n) == [variant |-> "Custom", name |-> n]
Kinds == {Direct, Fanout}
DebugKind(k) ==
    IF k.variant = "Custom" THEN <<"Custom(\"", k.name, "\")">> ELSE <<k.variant>>

\* FieldTable: a map from keys to AMQPValue
EmptyTable == <<>>
insert(ft, k, v) == [x \in DOMAIN ft \cup {k} |-> IF x = k THEN v ELSE ft[x]]
ShortStringValue(s) == [type |-> "ShortString", value |-> s]
LongLongInt(n) == [type |-> "LongLongInt", value |-> n]
ShortShortUInt(n) == [type |-> "ShortShortUInt", value |-> n]
BindingArguments == insert(EmptyTable, "x-match", ShortStringValue("all"))
ArgumentTables == {BindingArguments}

\* Duration::as_millis is a u128; wide marks a value above i64::MAX
Durations == {[millis |-> 1000, wide |-> FALSE], [millis |-> 0, wide |-> TRUE]}
try_into_i64(d) == IF d.wide THEN None ELSE Some(d.millis)
Priorities == {5}
Lengths == {10}

\* Display of an integer
Digit(n) == <<"0", "1", "2", "3", "4", "5", "6", "7", "8", "9">>[n + 1]
RECURSIVE Decimal(_)
Decimal(n) == IF n < 10 THEN <<Digit(n)>> ELSE Decimal(n \div 10) \o <<Digit(n % 10)>>

\* ---- binding.rs
\* variant: every target is described as an exchange
bound_type_exchange(T) == "exchange"

bound_type(T) == IF T = "Queue" THEN "queue" ELSE "exchange"

Binding_new(T, source, target) ==
    [type |-> "Binding", kind |-> T, source |-> source, target |-> target,
     _routing_key |-> None, _arguments |-> None]
routing_key(b, rk) == [b EXCEPT !._routing_key = Some(rk)]
arguments(b, args) == [b EXCEPT !._arguments = Some(args)]
unbind(b) == [type |-> "Unbind", kind |-> b.kind, b |-> b]

\* Debug of a table of ShortString values
RECURSIVE DebugEntries(_, _)
DebugEntries(ft, keys) ==
    IF keys = {} THEN <<>>
    ELSE LET k == CHOOSE x \in keys : TRUE
         IN  <<"\"", k, "\": ShortString(\"", ft[k].value, "\")">>
             \o DebugEntries(ft, keys \ {k})
DebugTable(ft) == <<"FieldTable({">> \o DebugEntries(ft, DOMAIN ft) \o <<"})">>
Binding_fmt(b) ==
    <<b.source, " -> ", bound_type(b.kind), "(", b.target, ")">>
    \o (IF b._routing_key.some THEN <<", routing key: ", b._routing_key.v>> ELSE <<>>)
    \o (IF b._arguments.some
        THEN <<", arguments: ">> \o DebugTable(b._arguments.v) ELSE <<>>)
Unbind_name(u) == <<"unbind: ">> \o Binding_fmt(u.b)

\* ---- the lapin::Channel of one apply: the calls made so far, and the
\* call the broker refuses (0: none)
Ok == [ok |-> TRUE]
Err(i) == [ok |-> FALSE, call |-> i]
Issue(calls, c, failAt) ==
    [calls |-> Append(calls, c),
     ret |-> IF Len(calls) + 1 = failAt THEN Err(Len(calls) + 1) ELSE Ok]

ExchangeDeclareOptions ==
    [passive |-> FALSE, durable |-> FALSE, auto_delete |-> FALSE,
     internal |-> FALSE, nowait |-> FALSE]
QueueDeclareOptions ==
    [passive |-> FALSE, durable |-> FALSE, exclusive |-> FALSE,
     auto_delete |-> FALSE, nowait |-> FALSE]
BindOptions == [nowait |-> FALSE]

exchange_declare(n, k, options, args) ==
    [call |-> "exchange_declare", exchange |-> n, kind |-> k,
     options |-> options, arguments |-> args]
queue_declare(n, options, args) ==
    [call |-> "queue_declare", queue |-> n, options |-> options,
     arguments |-> args]
exchange_bind(destination, source, rk, options, args) ==
    [call |-> "exchange_bind", destination |-> destination, source |-> source,
     routing_key |-> rk, options |-> options, arguments |-> args]
queue_bind(queue, exchange, rk, options, args) ==
    [call |-> "queue_bind", queue |-> queue, exchange |-> exchange,
     routing_key |-> rk, options |-> options, arguments |-> args]
exchange_unbind(destination, source, rk, options, args) ==
    [call |-> "exchange_unbind", destination |-> destination, source |-> source,
     routing_key |-> rk, options |-> options, arguments |-> args]
queue_unbind(queue, exchange, rk, args) ==
    [call |-> "queue_unbind", queue |-> queue, exchange |-> exchange,
     routing_key |-> rk, arguments |-> args]

BindingExchange_apply(b, calls, failAt) ==
    Issue(calls,
          exchange_bind(b.target, b.source, unwrap_or_default(b._routing_key, ""),
                        BindOptions, unwrap_or_default(b._arguments, EmptyTable)),
          failAt)
\* variant: the queue and the exchange of the call are exchanged
BindingQueue_apply_swapped(b, calls, failAt) ==
    Issue(calls,
          queue_bind(b.source, b.target, unwrap_or_default(b._routing_key, ""),
                     BindOptions, unwrap_or_default(b._arguments, EmptyTable)),
          failAt)

BindingQueue_apply(b, calls, failAt) ==
    Issue(calls,
          queue_bind(b.target, b.source, unwrap_or_default(b._routing_key, ""),
                     BindOptions, unwrap_or_default(b._arguments, EmptyTable)),
          failAt)
UnbindExchange_apply(u, calls, failAt) ==
    Issue(calls,
          exchange_unbind(u.b.target, u.b.source,
                          unwrap_or_default(u.b._routing_key, ""), BindOptions,
                          unwrap_or_default(u.b._arguments, EmptyTable)),
          failAt)
UnbindQueue_apply(u, calls, failAt) ==
    Issue(calls,
          queue_unbind(u.b.target, u.b.source,
                       unwrap_or_default(u.b._routing_key, ""),
                       unwrap_or_default(u.b._arguments, EmptyTable)),
          failAt)

\* ---- exchange.rs
ExchangePassive_new(n) == [type |-> "ExchangePassive", name |-> n]
ExchangePassive_fmt(x) == <<"Exchange(", x.name, ") as passive">>
ExchangePassive_apply(x, calls, failAt) ==
    Issue(calls,
          exchange_declare(x.name, Custom(""),
                           [ExchangeDeclareOptions EXCEPT !.passive = FALSE],
                           EmptyTable),
          failAt)

Exchange_new(n, k) ==
    [type |-> "Exchange", name |-> n, kind |-> k, _auto_delete |-> FALSE,
     durable |-> TRUE, _internal |-> FALSE, _alternate_exchange |-> None,
     bindings |-> <<>>]
Exchange_non_durable(x) == [x EXCEPT !.durable = FALSE]
Exchange_auto_delete(x) == [x EXCEPT !._auto_delete = TRUE]
Exchange_internal(x) == [x EXCEPT !._internal = TRUE]
Exchange_alternate_exchange(x, ax) == [x EXCEPT !._alternate_exchange = Some(ax)]

\* the closures add_binding is tried with: |b| b, |b| b.routing_key(rk),
\* |b| b.arguments(args) and |_| Binding::new(other, other)
Closures == {"keep", "routing_key", "arguments", "new"}
Call(f, b) ==
    CASE f = "keep" -> b
      [] f = "routing_key" -> routing_key(b, CHOOSE rk \in RoutingKeys : TRUE)
      [] f = "arguments" -> arguments(b, BindingArguments)
      [] f = "new" -> Binding_new(b.kind, OtherName, OtherName)

Exchange_add_binding(x, source, f) ==
    [x EXCEPT !.bindings = Append(@, Call(f, Binding_new("Exchange", source, x.name)))]

Exchange_fmt(x) ==
    <<"exchange(", x.name, ", ">> \o DebugKind(x.kind)
    \o (IF x.durable THEN <<", durable">> ELSE <<>>)
    \o (IF x._auto_delete THEN <<", auto-delete">> ELSE <<>>)
    \o (IF x._internal THEN <<", internal">> ELSE <<>>)
    \o (IF x._alternate_exchange.some
        THEN <<", alternate-exchange = ", x._alternate_exchange.v>> ELSE <<>>)
    \o (IF Len(x.bindings) > 0
        THEN <<", bound to ">> \o Decimal(Len(x.bindings)) ELSE <<>>)
    \o <<")">>

RECURSIVE Exchange_apply_bindings(_, _, _, _)
Exchange_apply_bindings(bs, i, calls, failAt) ==
    IF i > Len(bs) THEN [calls |-> calls, ret |-> Ok]
    ELSE LET r == BindingExchange_apply(bs[i], calls, failAt)
         IN  IF r.ret.ok THEN Exchange_apply_bindings(bs, i + 1, r.calls, failAt)
             ELSE r

Exchange_apply(x, calls, failAt) ==
    LET d == Issue(calls,
                   exchange_declare(
                       x.name, x.kind,
                       [passive |-> FALSE, durable |-> x.durable,
                        auto_delete |-> x._auto_delete, internal |-> x._internal,
                        nowait |-> FALSE],
                       IF x._alternate_exchange.some
                       THEN insert(EmptyTable, "alternate-exchange",
                                   ShortStringValue(x._alternate_exchange.v))
                       ELSE EmptyTable),
                   failAt)
    IN  IF d.ret.ok THEN Exchange_apply_bindings(x.bindings, 1, d.calls, failAt)
        ELSE d

\* ---- queue.rs
QueuePassive_new(n) == [type |-> "QueuePassive", name |-> n]
QueuePassive_fmt(q) == <<"queue(", q.name, ", passive)">>
QueuePassive_apply(q, calls, failAt) ==
    Issue(calls,
          queue_declare(q.name, [QueueDeclareOptions EXCEPT !.passive = TRUE],
                        EmptyTable),
          failAt)

Queue_new(n) ==
    [type |-> "Queue", name |-> n, durable |-> TRUE, _exclusive |-> FALSE,
     _auto_delete |-> FALSE, _message_ttl |-> None, _expires |-> None,
     _max_priority |-> None, _max_length |-> None,
     _dead_letter_exchange |-> None, _dead_letter_routing_key |-> None,
     bindings |-> <<>>]
Queue_non_durable(q) == [q EXCEPT !.durable = FALSE]
Queue_exclusive(q) == [q EXCEPT !._exclusive = TRUE]
Queue_auto_delete(q) == [q EXCEPT !._auto_delete = TRUE]
Queue_message_ttl(q, d) == [q EXCEPT !._message_ttl = Some(d)]
Queue_expires(q, d) == [q EXCEPT !._expires = Some(d)]
Queue_max_priority(q, p) == [q EXCEPT !._max_priority = Some(p)]
Queue_max_length(q, n) == [q EXCEPT !._max_length = Some(n)]
Queue_dead_letter_exchange(q, x) == [q EXCEPT !._dead_letter_exchange = Some(x)]
Queue_dead_letter_routing_key(q, k) ==
    [q EXCEPT !._dead_letter_routing_key = Some(k)]
Queue_add_binding(q, source, f) ==
    [q EXCEPT !.bindings = Append(@, Call(f, Binding_new("Queue", source, q.name)))]

Queue_fmt(q) ==
    <<"queue(", q.name>> \o (IF q.durable THEN <<", durable">> ELSE <<>>) \o <<")">>

Queue_arguments(q) ==
    LET a1 == IF q._message_ttl.some /\ try_into_i64(q._message_ttl.v).some
              THEN insert(EmptyTable, "x-message-ttl",
                          LongLongInt(try_into_i64(q._message_ttl.v).v))
              ELSE EmptyTable
        a2 == IF q._expires.some /\ try_into_i64(q._expires.v).some
              THEN insert(a1, "x-expires", LongLongInt(try_into_i64(q._expires.v).v))
              ELSE a1
        a3 == IF q._max_priority.some
              THEN insert(a2, "x-max-priority", ShortShortUInt(q._max_priority.v))
              ELSE a2
        a4 == IF q._max_length.some
              THEN insert(a3, "x-max-length-bytes", LongLongInt(q._max_length.v))
              ELSE a3
        a5 == IF q._dead_letter_exchange.some
              THEN insert(a4, "x-dead-letter-exchange",
                          ShortStringValue(q._dead_letter_exchange.v))
              ELSE a4
    IN  IF q._dead_letter_exchange.some /\ q._dead_letter_routing_key.some
        THEN insert(a5, "x-dead-letter-exchange",
                    ShortStringValue(q._dead_letter_routing_key.v))
        ELSE a5

Queue_apply(q, calls, failAt) ==
    Issue(calls,
          queue_declare(q.name,
                        [auto_delete |-> q._auto_delete, durable |-> q.durable,
                         exclusive |-> q._exclusive, nowait |-> FALSE,
                         passive |-> FALSE],
                        Queue_arguments(q)),
          failAt)

\* ---- Topology::name and Topology::apply, by the type of the item
name(x) ==
    CASE x.type = "ExchangePassive" -> ExchangePassive_fmt(x)
      [] x.type = "QueuePassive" -> QueuePassive_fmt(x)
      [] x.type = "Exchange" -> Exchange_fmt(x)
      [] x.type = "Queue" -> Queue_fmt(x)
      [] x.type = "Binding" -> Binding_fmt(x)
      [] x.type = "Unbind" -> Unbind_name(x)

Topology_apply(x, failAt) ==
    CASE x.type = "ExchangePassive" -> ExchangePassive_apply(x, <<>>, failAt)
      [] x.type = "QueuePassive" -> QueuePassive_apply(x, <<>>, failAt)
      [] x.type = "Exchange" -> Exchange_apply(x, <<>>, failAt)
      [] x.type = "Queue" -> Queue_apply(x, <<>>, failAt)
      [] x.type = "Binding" /\ x.kind = "Exchange" -> BindingExchange_apply(x, <<>>, failAt)
      [] x.type = "Binding" /\ x.kind = "Queue" -> BindingQueue_apply(x, <<>>, failAt)
      [] x.type = "Unbind" /\ x.kind = "Exchange" -> UnbindExchange_apply(x, <<>>, failAt)
      [] x.type = "Unbind" /\ x.kind = "Queue" -> UnbindQueue_apply(x, <<>>, failAt)

\* ---- building, describing and applying one item
Built(x, a, n) ==
    /\ n <= MaxCalls
    /\ item' = x
    /\ adds' = a
    /\ built' = n
    /\ channel' = <<>>
    /\ result' = NoResult
    /\ UNCHANGED <<actorVars, recordVars>>

NewExchangePassive(n) == n \in EntityNames /\ Built(ExchangePassive_new(n), <<>>, 0)
NewQueuePassive(n) == n \in EntityNames /\ Built(QueuePassive_new(n), <<>>, 0)
NewExchange(n, k) == n \in EntityNames /\ Built(Exchange_new(n, k), <<>>, 0)
NewQueue(n) == n \in EntityNames /\ Built(Queue_new(n), <<>>, 0)
NewBinding(T, s, t) == t \in EntityNames /\ Built(Binding_new(T, s, t), <<>>, 0)

BindingRoutingKey(rk) == item.type = "Binding" /\ Built(routing_key(item, rk), adds, built + 1)
BindingArgumentsCall(a) == item.type = "Binding" /\ Built(arguments(item, a), adds, built + 1)
BindingUnbind == item.type = "Binding" /\ Built(unbind(item), adds, built + 1)

ExchangeNonDurable == item.type = "Exchange" /\ Built(Exchange_non_durable(item), adds, built + 1)
ExchangeAutoDelete == item.type = "Exchange" /\ Built(Exchange_auto_delete(item), adds, built + 1)
ExchangeInternal == item.type = "Exchange" /\ Built(Exchange_internal(item), adds, built + 1)
ExchangeAlternateExchange(ax) ==
    item.type = "Exchange" /\ Built(Exchange_alternate_exchange(item, ax), adds, built + 1)
ExchangeAddBinding(s, f) ==
    /\ item.type = "Exchange"
    /\ Len(adds) < MaxBindings
    /\ Built(Exchange_add_binding(item, s, f), Append(adds, [source |-> s, f |-> f]), built + 1)

QueueNonDurable == item.type = "Queue" /\ Built(Queue_non_durable(item), adds, built + 1)
QueueExclusive == item.type = "Queue" /\ Built(Queue_exclusive(item), adds, built + 1)
QueueAutoDelete == item.type = "Queue" /\ Built(Queue_auto_delete(item), adds, built + 1)
QueueMessageTtl(d) == item.type = "Queue" /\ Built(Queue_message_ttl(item, d), adds, built + 1)
QueueExpires(d) == item.type = "Queue" /\ Built(Queue_expires(item, d), adds, built + 1)
QueueMaxPriority(p) == item.type = "Queue" /\ Built(Queue_max_priority(item, p), adds, built + 1)
QueueMaxLength(n) == item.type = "Queue" /\ Built(Queue_max_length(item, n), adds, built + 1)
QueueDeadLetterExchange(x) ==
    item.type = "Queue" /\ Built(Queue_dead_letter_exchange(item, x), adds, built + 1)
QueueDeadLetterRoutingKey(k) ==
    item.type = "Queue" /\ Built(Queue_dead_letter_routing_key(item, k), adds, built + 1)
QueueAddBinding(s, f) ==
    /\ item.type = "Queue"
    /\ Len(adds) < MaxBindings
    /\ Built(Queue_add_binding(item, s, f), Append(adds, [source |-> s, f |-> f]), built + 1)

\* Topology::name of the item in hand
Name ==
    /\ item # NoItem
    /\ result' = [op |-> "name", value |-> name(item)]
    /\ channel' = <<>>
    /\ UNCHANGED <<item, adds, built, actorVars, recordVars>>

\* Topology::apply of the item in hand on a fresh channel that refuses its
\* failAt-th call
Apply(failAt) ==
    /\ item # NoItem
    /\ LET r == Topology_apply(item, failAt)
       IN  /\ channel' = r.calls
           /\ result' = [op |-> "apply", value |-> r.ret]
    /\ UNCHANGED <<item, adds, built, actorVars, recordVars>>

TopologyNext ==
    \/ \E n \in EntityNames : NewExchangePassive(n)
    \/ \E n \in EntityNames : NewQueuePassive(n)
    \/ \E n \in EntityNames, k \in Kinds : NewExchange(n, k)
    \/ \E n \in EntityNames : NewQueue(n)
    \/ \E T \in {"Exchange", "Queue"}, s \in SourceNames, t \in EntityNames :
          NewBinding(T, s, t)
    \/ \E rk \in RoutingKeys : BindingRoutingKey(rk)
    \/ \E a \in ArgumentTables : BindingArgumentsCall(a)
    \/ BindingUnbind
    \/ ExchangeNonDurable
    \/ ExchangeAutoDelete
    \/ ExchangeInternal
    \/ \E ax \in AlternateNames : ExchangeAlternateExchange(ax)
    \/ \E s \in SourceNames, f \in Closures : ExchangeAddBinding(s, f)
    \/ QueueNonDurable
    \/ QueueExclusive
    \/ QueueAutoDelete
    \/ \E d \in Durations : QueueMessageTtl(d)
    \/ \E d \in Durations : QueueExpires(d)
    \/ \E p \in Priorities : QueueMaxPriority(p)
    \/ \E n \in Lengths : QueueMaxLength(n)
    \/ \E x \in AlternateNames : QueueDeadLetterExchange(x)
    \/ \E k \in RoutingKeys : QueueDeadLetterRoutingKey(k)
    \/ \E s \in SourceNames, f \in Closures : QueueAddBinding(s, f)
    \/ Name
    \/ \E failAt \in 0..(MaxBindings + 1) : Apply(failAt)

\* the topology items with a record and a registry that nobody uses
TopologyInit == limit = BaseLimit /\ Start /\ topology = <<>> /\ Started /\ Unbuilt

TopologySpec == TopologyInit /\ [][TopologyNext]_vars

\* ------------------------------------------------------------ claims
InFlight == attempt.outcome # "none"
IsPrefix(a, b) == Len(a) <= Len(b) /\ a = SubSeq(b, 1, Len(a))
FailedInTopology == last.op = "connect" /\ last.att.outcome = "topology_failed"
FailedAfterTransport ==
    last.op = "connect" /\ last.att.outcome \in {"channel_failed", "topology_failed"}

\* C1: once the state is Closed no step changes it, and no transport connect
\* is made after Closed was set (a late error callback is a no-op)
ClosedIsTerminal ==
    [][/\ (state.tag = "Closed" => state'.tag = "Closed")
       /\ (everClosed => connects' = connects)]_vars

\* C2: the items are applied in list order and the application stops at the
\* first failure: items 1..i-1 succeeded, item i was attempted, nothing after
\* it was attempted, and the error returned is the one of item i
ApplyStopsAtFirstFailure ==
    /\ IsPrefix(attempt.applied, topology)
    /\ (attempt.outcome = "running" => attempt.err = NoErr)
    /\ (FailedInTopology =>
          /\ Len(last.att.applied) >= 1
          /\ IsPrefix(last.att.applied, topology)
          /\ last.att.err = last.input
          /\ last.input \in ItemErrors
          /\ last.ret = "false"
          /\ ~InFlight
          /\ \A t \in TaskIds : tasks[t].pc # "apply")

\* C2 witness: item 1 of a list of two failed and item 2 was never attempted
ApplyStoppedAtFirstItem ==
    /\ FailedInTopology
    /\ Len(topology) = 2
    /\ last.att.applied = <<topology[1]>>

\* C3: a failure of the channel or of a topology item after a successful
\* transport connect is a connect failure: Fail(reason), connect returns false,
\* the new connection is discarded, not stored and has no error handler
TopologyFailureIsConnectFailure ==
    FailedAfterTransport =>
        /\ state.tag = "Fail"
        /\ ErrText(state.err) = ErrText(last.input)
        /\ last.ret = "false"
        /\ last.att.conn # NoConn
        /\ last.att.conn \notin liveConns
        /\ last.att.conn \notin handlers
        /\ state.conn = NoConn

\* C3 witness: the second item failed after the first was applied
SecondItemFailed ==
    /\ FailedInTopology
    /\ Len(last.att.applied) = 2
    /\ state.tag = "Fail"
    /\ declares >= 1

\* C4: every set of Ready ends a connect attempt that opened exactly one
\* channel (none for an empty list) on the new connection and applied the
\* whole list once, in order; an attempt whose transport connect failed
\* applied nothing; with the list [q1] and no error callback, q1 has been
\* declared exactly once when the state is Ready
TopologyOncePerConnect ==
    /\ (last.set.called /\ last.set.arg.tag = "Ready" =>
          /\ last.op = "connect"
          /\ last.att.outcome = "ready"
          /\ last.att.conn = last.set.arg.conn
          /\ last.att.conn = connects
          /\ last.att.applied = topology
          /\ last.att.err = NoErr
          /\ last.att.chans = (IF topology = <<>> THEN 0 ELSE 1))
    /\ (state.tag = "Ready" /\ state # last.set.old /\ last.set.called /\ last.set.arg = state
          => last.op = "connect")
    /\ (last.op = "connect" /\ last.att.outcome = "transport_failed" =>
          /\ last.att.applied = <<>>
          /\ last.att.chans = 0
          /\ last.att.conn = NoConn)
    /\ (Len(topology) = 1 /\ fired = 0 /\ state.tag = "Ready" => declares = 1)

\* C4 witness: the transport connect failed once, then succeeded, and q1 was
\* declared once
ReadyAfterOneFailure ==
    /\ topology = <<"q1">>
    /\ connects = 2
    /\ last.op = "connect"
    /\ last.att.outcome = "ready"
    /\ state.tag = "Ready"
    /\ declares = 1

\* C5: the record holds a transport connection iff its state is Ready; apart
\* from that one, the only connection that exists is the one a connect
\* attempt in flight has just opened
LiveIffReady ==
    /\ (state.conn # NoConn <=> state.tag = "Ready")
    /\ liveConns = (IF state.tag = "Ready" THEN {state.conn} ELSE {})
                   \cup ({attempt.conn} \ {NoConn})

\* C5 witness: the record left Ready and holds no connection
LeftReady ==
    /\ last.set.called
    /\ last.set.old.tag = "Ready"
    /\ state.tag \in {"Fail", "Closed"}
    /\ liveConns = {}

\* C6: a set of a value equal to the current one (Fail values are equal iff
\* their texts are) changes nothing and notifies nobody; a set of another
\* value stores it and notifies the subscribers exactly once
SetEqualIsNoop ==
    last.set.called =>
        LET a == last.set.arg
            o == last.set.old
            equal == /\ a.tag = o.tag
                     /\ (a.tag = "Fail" => ErrText(a.err) = ErrText(o.err))
        IN IF equal
           THEN state = o /\ last.set.sent = 0
           ELSE /\ state = a
                /\ last.set.sent = (IF Receivers # {} THEN 1 ELSE 0)
                /\ (Receivers # {} => state_watcher.value = [tag |-> a.tag, err |-> a.err])

\* C6 witness: Fail(e2) was set on Fail(e1), both of text "x", with a
\* subscriber: one notification came of the two sets
SameTextFailTwice ==
    /\ last.set.called
    /\ last.set.old = Fail("e1")
    /\ last.set.arg = Fail("e2")
    /\ Receivers # {}
    /\ state = Fail("e1")
    /\ state_watcher.version = 1

\* C7: an observer created before the first state change and kept alive
\* reports, once it has drained the notifications, the last state set
ObserverSeesLast ==
    \A o \in ObsIds :
        (/\ observers[o].alive
         /\ observers[o].pre
         /\ observers[o].val # NoValue
         /\ observers[o].seen = state_watcher.version)
        => /\ observers[o].val.tag = state.tag
           /\ observers[o].val.err = state.err

\* C7 witness: the observer has drained two changes and reports Ready
ObserverDrainedToReady ==
    \E o \in ObsIds :
        /\ observers[o].alive
        /\ observers[o].pre
        /\ observers[o].seen = state_watcher.version
        /\ state_watcher.version = 2
        /\ observers[o].val.tag = "Ready"
        /\ state.tag = "Ready"

\* C8: the observer state_watcher returns reflects, on its first read, the
\* state the record has when it is returned
FirstReadIsCurrent ==
    last.op = "state_watcher" =>
        /\ state_watcher.some
        /\ state_watcher.value.tag = state.tag
        /\ state_watcher.value.err = state.err

\* C9: create_channel on a record that is not Ready returns an error without
\* a transport call, calls the transport only when Ready, and leaves the
\* state and the observers as they are
CreateChannelGated ==
    [][last'.op = "create_channel" =>
         /\ state' = state
         /\ state_watcher' = state_watcher
         /\ observers' = observers
         /\ liveConns' = liveConns
         /\ (state.tag # "Ready" => last'.sent = 0 /\ last'.ret = "err")
         /\ (last'.sent # 0 => state.tag = "Ready" /\ last'.sent = 1)]_vars

\* C9 witness: create_channel returned an error on a Fail record and made no
\* transport call
CreateChannelRefusedOnFail ==
    /\ last.op = "create_channel"
    /\ state.tag = "Fail"
    /\ last.ret = "err"
    /\ last.sent = 0

\* C10: close sends the transport close with the given code iff the record
\* is Ready, never fails, and leaves the state Closed with no connection held
CloseIsBestEffort ==
    last.op = "close" =>
        /\ last.ret = "ok"
        /\ state.tag = "Closed"
        /\ liveConns = {}
        /\ last.sent \in {NoCode, last.code}

\* C11: two close calls in a row, through two handles, both succeed and
\* leave the state Closed; the second one sends no transport close, changes
\* no state and notifies nobody
CloseIsIdempotent ==
    [][(last.op = "close" /\ last'.op \in {"close", "transport_close"}) =>
         /\ last.ret = "ok"
         /\ state.tag = "Closed"
         /\ last'.op = "close"
         /\ last'.ret = "ok"
         /\ last'.sent = NoCode
         /\ last'.set.sent = 0
         /\ state' = state
         /\ state_watcher' = state_watcher]_vars

\* the retry loops of the record: the tasks spawned by reconnect
RetryLoops == {t \in TaskIds : tasks[t].kind = "loop"}

\* C12: at most one retry loop of the record exists at any time, whatever
\* the interleaving of the initial connect, the retries, close and the error
\* callbacks
SingleRetryLoop == Cardinality(RetryLoops) <= 1

\* C13: a retry loop ends when its connect reports success or finds Closed,
\* and once close has set Closed a loop that wakes makes no transport connect
\* and ends
RetryLoopStopsOnClosed ==
    [][\A t \in RetryLoops :
         /\ (lock = t /\ last'.op = "connect" /\ last'.ret = "true"
               => tasks'[t] = NoTaskRec)
         /\ (tasks[t].pc = "connect" /\ tasks'[t] # tasks[t]
               /\ (state.tag = "Closed" \/ everClosed)
               => tasks'[t] = NoTaskRec /\ connects' = connects)]_vars

\* the task is inside the connect protocol
InConnect(tk) == tk.pc \in {"connect", "transport", "channel", "apply"}

\* C14: an invocation of the error handler sets Fail(reason) and goes straight
\* to one connect attempt; when that attempt fails the task never attempts
\* again itself but becomes the retry loop, and a retry loop reaches a
\* connect attempt only by waking from its sleep
ErrorHandlerRetriesOnce ==
    [][\A t \in TaskIds : tasks'[t] # tasks[t] =>
         /\ (tasks[t].pc = "cb_set" =>
               /\ state'.tag = "Fail"
               /\ ErrText(state'.err) = ErrText(tasks[t].e)
               /\ tasks'[t] = [tasks[t] EXCEPT !.pc = "connect"]
               /\ connects' = connects)
         /\ (tasks[t].kind = "cb" /\ InConnect(tasks[t]) =>
               /\ tasks'[t].pc \notin {"connect", "cb_set", "sleep"}
               /\ (last'.op = "connect" /\ last'.ret = "false"
                     => tasks'[t].kind = "cb" /\ tasks'[t].pc = "reconnect")
               /\ (last'.op = "connect" /\ last'.ret = "true"
                     => tasks'[t] = NoTaskRec))
         /\ (tasks[t].pc = "reconnect" =>
               tasks'[t].kind = "loop" /\ tasks'[t].pc = "sleep")
         /\ (tasks'[t].pc = "connect" =>
               \/ tasks[t].pc = "cb_set"
               \/ (tasks[t].kind = "loop" /\ tasks[t].pc = "sleep"
                     /\ last'.op = "wake"))
         /\ (tasks[t].kind = "loop" /\ InConnect(tasks[t]) =>
               tasks'[t].pc # "connect")]_vars

\* C14 witness: the immediate attempt of an error handler failed and the
\* retry loop it fell back to has slept and woken
RetryAfterImmediateFailed ==
    /\ last.op = "wake"
    /\ fired >= 1
    /\ state.tag = "Fail"
    /\ \E t \in RetryLoops : tasks[t].pc = "connect"

\* C15: when the transport connect of the initial attempt or of a retry
\* iteration fails, the state is Fail(reason), connect returns false, no
\* connection is held, the task goes on to the wait of the retry loop, and
\* the step that follows is not the start of another transport connect: the
\* next attempt for the record comes after a wait
TransportFailureBacksOff ==
    [][/\ (/\ last'.op = "connect"
           /\ last'.att.outcome = "transport_failed"
           /\ last'.by \in {"build", "loop"}
           => /\ state'.tag = "Fail"
              /\ ErrText(state'.err) = ErrText(last'.input)
              /\ last'.ret = "false"
              /\ state'.conn = NoConn
              /\ liveConns' = {}
              /\ tasks'[lock].pc \in {"reconnect", "sleep"})
       /\ (/\ last.op = "connect"
           /\ last.att.outcome = "transport_failed"
           /\ last.by \in {"build", "loop"}
           => last'.op # "transport_connect")]_vars

\* C16: connect on a record that is Ready or Closed returns true and does
\* nothing: no transport connect, no topology item, no handler registered,
\* the state, the connection held and the observers unchanged (when the task
\* held the last reference to the record, its release then drops the record)
ConnectOnReadyOrClosedIsNoop ==
    [][\A t \in TaskIds :
         (/\ tasks[t].pc = "connect"
          /\ tasks'[t] # tasks[t]
          /\ state.tag \in {"Ready", "Closed"})
         => /\ last'.op = "connect"
            /\ last'.ret = "true"
            /\ last'.att = NoAttempt
            /\ connects' = connects
            /\ declares' = declares
            /\ handlers' = handlers
            /\ attempt' = attempt
            /\ lock' = lock
            /\ observers' = observers
            /\ IF dropped' = dropped
               THEN /\ state' = state
                    /\ liveConns' = liveConns
                    /\ state_watcher' = state_watcher
               ELSE state'.tag = "Closed" /\ Strong(tasks', handles') = 0]_vars

\* C16 witness: the connect of an error callback found the record Ready
\* again and returned true without a transport connect
ConnectFoundReady ==
    /\ last.op = "connect"
    /\ last.ret = "true"
    /\ last.att = NoAttempt
    /\ last.by = "cb"
    /\ state.tag = "Ready"
    /\ liveConns = {state.conn}

\* the record is dropped by this step
Teardown == dropped' /\ ~dropped

\* C17: a state change that starts in a state other than Closed follows
\* Unknown -> {Ready, Fail, Closed}, Fail -> {Ready, Fail, Closed} or
\* Ready -> {Fail, Closed}; Ready is entered only by a connect attempt that
\* succeeded, and Ready is left only by the error handler (to Fail) or by
\* close or the drop of the record (to Closed)
StateEdges ==
    [][(state' # state /\ state.tag # "Closed") =>
         /\ state'.tag # "Unknown"
         /\ (state.tag = "Ready" => state'.tag \in {"Fail", "Closed"})
         /\ (state'.tag = "Ready" =>
               /\ state.tag \in {"Unknown", "Fail"}
               /\ last'.op = "connect"
               /\ last'.ret = "true"
               /\ last'.att.outcome = "ready"
               /\ last'.att.conn = state'.conn)
         /\ (state.tag = "Ready" /\ state'.tag = "Fail" =>
               last'.op = "callback_set")
         /\ (state.tag = "Ready" /\ state'.tag = "Closed" =>
               last'.op = "close" \/ Teardown)
         /\ (state.tag = "Ready" =>
               last'.op \notin {"transport_connect", "connect_step", "wake",
                                "reconnect"}
               /\ (last'.op = "connect" => Teardown))]_vars

\* C17 witness: the error handler took the record from Ready to Fail
ReadyToFailByHandler ==
    /\ last.op = "callback_set"
    /\ last.set.called
    /\ last.set.old.tag = "Ready"
    /\ state.tag = "Fail"

\* the tasks inside a section that holds the write guard across an await
Writers == {t \in TaskIds : tasks[t].pc \in {"transport", "channel", "apply", "closing"}}

\* at most one task is inside such a section, it is the holder of the write
\* guard, and a connect attempt is in flight iff the holder is inside connect
Serialized ==
    /\ Cardinality(Writers) <= 1
    /\ Writers = (IF lock = NoTask THEN {} ELSE {lock})
    /\ (InFlight <=> \E t \in Writers : tasks[t].pc # "closing")

\* C18: the mutations of the record are serialized: one task at a time is
\* inside connect, close or the handler's write, so at most one transport
\* connect is in flight, and from the state check of a connect attempt to
\* its set of Ready or Fail no other task changes the state, the connection
\* held or the watch channel
MutationIsSerialized ==
    [][/\ Serialized
       /\ Serialized'
       /\ (lock # NoTask /\ lock' # NoTask =>
             /\ lock' = lock
             /\ state' = state
             /\ state_watcher' = state_watcher
             /\ handlers' = handlers)
       /\ (lock # NoTask /\ lock' = NoTask =>
             /\ tasks'[lock] # tasks[lock]
             /\ last'.op \in {"connect", "close"})
       /\ (lock = NoTask /\ state' # state => lock' = NoTask)]_vars

\* C18 witness: a transport connect is in flight while an error handler
\* waits for the write guard and the user holds a handle it could close
WriterWaitsForAttempt ==
    /\ lock # NoTask
    /\ tasks[lock].pc = "transport"
    /\ \E u \in TaskIds : tasks[u].pc = "cb_set"
    /\ handles > 0

\* a transport connect, a channel or a topology item fails in this step
TransportFails ==
    \E t \in TaskIds :
        \/ \E e \in ConnectErrors : TransportConnectErr(t, e)
        \/ \E e \in ChannelErrors : OpenChannelErr(t, e)
        \/ \E e \in ItemErrors : ApplyItemErr(t, e)

\* the record is neither closed nor dropped
Kept == handles > 0 /\ ~everClosed /\ ~dropped

\* C19: when the record is never closed or dropped and from some point on
\* no transport connect and no topology item fails, the state becomes Ready
\* (again after every later fall back to Fail); until the first Ready the
\* state goes from Unknown through Fail values only
ReconnectsEventually ==
    /\ [][handlers = {} /\ state' # state /\ state'.tag # "Closed" =>
            /\ state.tag \in {"Unknown", "Fail"}
            /\ state'.tag \in {"Fail", "Ready"}]_vars
    /\ ([]Kept /\ <>[][~TransportFails]_vars => []<>(state.tag = "Ready"))

\* C19 witness: after more failures than were counted a retry loop reached
\* Ready on a record that is still held
ReadyAfterRetries ==
    /\ limit.forever
    /\ Kept
    /\ last.op = "connect"
    /\ last.by = "loop"
    /\ state.tag = "Ready"
    /\ connects = limit.connects
    /\ state_watcher.some = FALSE

\* the connection actor holds a live transport connection
HoldsConnection(a) == actors[a].state.tag = "Ready"

\* C20: once the registry has shut down (the RabbitClient is dropped and the
\* RabbitActor has handled Close and stopped) no connection actor holds a
\* live transport connection, none has a connect in flight and none has a
\* retry pending
ShutdownClosesAll ==
    rabbit.status = "stopped" =>
        \A a \in ActorIds :
            /\ ~HoldsConnection(a)
            /\ actors[a].inflight = 0
            /\ actors[a].timers = 0

\* ---- topology items
Applied == result.op = "apply"
Described == result.op = "name"

\* C21: applying an ExchangePassive or a QueuePassive item issues exactly one
\* call, a declare of the named entity with the passive flag set
PassiveItemDeclaresPassively ==
    (Applied /\ item.type \in {"ExchangePassive", "QueuePassive"}) =>
        /\ Len(channel) = 1
        /\ channel[1].call =
               (IF item.type = "ExchangePassive" THEN "exchange_declare"
                ELSE "queue_declare")
        /\ (IF item.type = "ExchangePassive" THEN channel[1].exchange
            ELSE channel[1].queue) = item.name
        /\ channel[1].options.passive

\* C22: every binding contained in a built Exchange or Queue has the name of
\* its container as target and the source given to its add_binding call as
\* source, whatever closure the call was given
ContainedBindingsPointAtContainer ==
    item.type \in {"Exchange", "Queue"} =>
        /\ Len(item.bindings) = Len(adds)
        /\ \A i \in 1..Len(adds) :
              /\ item.bindings[i].target = item.name
              /\ item.bindings[i].source = adds[i].source

\* the tasks of the error handler that hold only their Weak
Pending(t) == tasks[t].kind = "cb" /\ tasks[t].pc = "upgrade"
OnlyWeakLeft ==
    handles = 0 /\ \A t \in TaskIds : tasks[t].kind = "none" \/ Pending(t)

\* C23: the error handler holds only a weak reference.  A record whose only
\* references are handler tasks that have not upgraded yet is dropped, and a
\* handler task that runs on a dropped record ends without a state write, a
\* notification, a transport connect or a retry loop
HandlerHoldsOnlyWeak ==
    /\ [](OnlyWeakLeft => dropped)
    /\ [][\A t \in TaskIds :
            (dropped /\ Pending(t) /\ tasks'[t] # tasks[t]) =>
                /\ tasks' = [tasks EXCEPT ![t] = NoTaskRec]
                /\ state' = state
                /\ state_watcher' = state_watcher
                /\ liveConns' = liveConns
                /\ connects' = connects
                /\ attempt' = attempt
                /\ ~last'.set.called]_vars

\* C23 witness: the handler fired, the last owner went away before its task
\* ran, and the task found no record
HandlerFoundNoRecord ==
    dropped /\ last.op = "upgrade" /\ last.ret = "none" /\ fired > 0

\* C24: the drop of the record leaves Closed for good: from then on the
\* state is Closed, every receiver that is still alive reads Closed, and no
\* step changes the state or the value of the channel
TornDownIsClosedForObservers ==
    /\ [](dropped =>
            /\ state.tag = "Closed"
            /\ \A o \in Receivers : state_watcher.value.tag = "Closed")
    /\ [][dropped => (state' = state /\ state_watcher' = state_watcher)]_vars

\* the description the builder test expects of an exchange
ExpectedExchangeDescription(x) ==
    <<"Exchange(", x.name, ", ">> \o DebugKind(x.kind)
    \o (IF x.durable THEN <<", durable">> ELSE <<>>)
    \o (IF x._auto_delete THEN <<", auto-delete">> ELSE <<>>)
    \o (IF x._internal THEN <<", internal">> ELSE <<>>)
    \o (IF x._alternate_exchange.some
        THEN <<", alternate-exchange = ", x._alternate_exchange.v>> ELSE <<>>)
    \o (IF Len(adds) > 0 THEN <<", bound to ">> \o Decimal(Len(adds)) ELSE <<>>)
    \o <<")">>

\* C25: k calls of add_binding leave k bindings in an exchange, and the
\* description of the exchange is `Exchange(<name>, <kind>`, then `, durable`,
\* `, auto-delete`, `, internal`, `, alternate-exchange = X` and `, bound to k`
\* for the attributes that are set, in this order, then `)`
ExchangeDescription ==
    item.type = "Exchange" =>
        /\ Len(item.bindings) = Len(adds)
        /\ Described => result.value = ExpectedExchangeDescription(item)

\* the text sub occurs in the text s
Contains(s, sub) ==
    \E i \in 1..(Len(s) - Len(sub) + 1) : SubSeq(s, i, i + Len(sub) - 1) = sub

\* C26: the description of a binding contains its source, its target as
\* `queue(<target>)` for a Binding<Queue> and `exchange(<target>)` for a
\* Binding<Exchange>, and its routing key when one is set
BindingDescription ==
    (Described /\ item.type = "Binding") =>
        /\ Contains(result.value, <<item.source>>)
        /\ Contains(result.value,
                    <<IF item.kind = "Queue" THEN "queue" ELSE "exchange", "(",
                      item.target, ")">>)
        /\ item._routing_key.some =>
               Contains(result.value, <<item._routing_key.v>>)

\* C26 witness: the description of a Binding<Queue> with a routing key
QueueBindingDescribed ==
    /\ Described
    /\ item.type = "Binding"
    /\ item.kind = "Queue"
    /\ item._routing_key = Some("rk")
    /\ result.value = <<item.source, " -> ", "queue", "(", item.target, ")",
                        ", routing key: ", "rk">>

\* a is b with some elements left out
RECURSIVE Embeds(_, _)
Embeds(a, b) ==
    IF a = <<>> THEN TRUE
    ELSE IF b = <<>> THEN FALSE
    ELSE IF Head(a) = Head(b) THEN Embeds(Tail(a), Tail(b))
    ELSE Embeds(a, Tail(b))

\* C27: the values one receiver has read are, in the same order, values of
\* the sequence of states the record has had (its initial state and every
\* change made since), and a read changes neither the lock nor a task nor
\* the record
ObserverReadsInOrder ==
    /\ [](\A o \in Receivers : Embeds(observers[o].got, changes))
    /\ [][last'.op = "read" =>
            /\ lock' = lock
            /\ tasks' = tasks
            /\ state' = state
            /\ state_watcher' = state_watcher]_vars

\* C27 witness: a receiver that did not see every state reads its second
\* value while a connect attempt holds the write lock
ObserverReadWhileLocked ==
    /\ last.op = "read"
    /\ lock # NoTask
    /\ Len(changes) >= 3
    /\ \E o \in Receivers : Len(observers[o].got) = 2

\* what a bind or unbind call names: lapin calls the destination of a queue
\* call `queue` and its source `exchange`
CallFields(c) ==
    [destination |-> IF c.call \in {"queue_bind", "queue_unbind"} THEN c.queue
                     ELSE c.destination,
     source |-> IF c.call \in {"queue_bind", "queue_unbind"} THEN c.exchange
                ELSE c.source,
     routing_key |-> c.routing_key,
     arguments |-> c.arguments]
BindingFields(b) ==
    [destination |-> b.target,
     source |-> b.source,
     routing_key |-> IF b._routing_key.some THEN b._routing_key.v ELSE "",
     arguments |-> IF b._arguments.some THEN b._arguments.v ELSE EmptyTable]

\* C28: applying a binding issues exactly one call, exchange_bind for a
\* Binding<Exchange> and queue_bind for a Binding<Queue>, and applying an
\* Unbind exactly one exchange_unbind or queue_unbind; the call carries the
\* binding's target as destination, its source, its routing key (empty when
\* unset) and its arguments (empty when unset)
BindCallFollowsTargetKind ==
    (Applied /\ item.type \in {"Binding", "Unbind"}) =>
        /\ Len(channel) = 1
        /\ channel[1].call =
               (CASE item.type = "Binding" /\ item.kind = "Exchange" -> "exchange_bind"
                  [] item.type = "Binding" /\ item.kind = "Queue" -> "queue_bind"
                  [] item.type = "Unbind" /\ item.kind = "Exchange" -> "exchange_unbind"
                  [] item.type = "Unbind" /\ item.kind = "Queue" -> "queue_unbind")
        /\ CallFields(channel[1]) =
               BindingFields(IF item.type = "Binding" THEN item ELSE item.b)

\* C28 witness: the Unbind of a Binding<Queue> with a routing key and no
\* arguments was applied
QueueUnbindApplied ==
    /\ Applied
    /\ item.type = "Unbind"
    /\ item.kind = "Queue"
    /\ item.b._routing_key = Some("rk")
    /\ item.b._arguments = None
    /\ Len(channel) = 1
    /\ channel[1].call = "queue_unbind"
    /\ channel[1].queue = item.b.target
    /\ channel[1].routing_key = "rk"
    /\ DOMAIN channel[1].arguments = {}

\* C29: applying an Exchange or a Queue issues the declare of the entity,
\* then one bind call per contained binding, in insertion order, up to the
\* first call that fails; the error returned is the error of that call, and
\* a successful application has issued the bind call of every binding
ContainerAppliesItsBindings ==
    (Applied /\ item.type \in {"Exchange", "Queue"}) =>
        /\ Len(channel) >= 1
        /\ Len(channel) <= 1 + Len(item.bindings)
        /\ channel[1].call =
               (IF item.type = "Exchange" THEN "exchange_declare" ELSE "queue_declare")
        /\ (IF item.type = "Exchange" THEN channel[1].exchange ELSE channel[1].queue)
               = item.name
        /\ \A i \in 2..Len(channel) :
              /\ channel[i].call =
                     (IF item.type = "Exchange" THEN "exchange_bind" ELSE "queue_bind")
              /\ CallFields(channel[i]) = BindingFields(item.bindings[i - 1])
        /\ result.value.ok => Len(channel) = 1 + Len(item.bindings)
        /\ ~result.value.ok => result.value.call = Len(channel)

\* C30: a connection actor has at most one transport connect in flight and
\* at most one delayed retry pending, and no step replaces or discards the
\* connection of a Ready actor while the actor runs, other than the handling
\* of a Disconnected message
ActorAttemptsAreExclusive ==
    /\ [](\A a \in ActorIds : actors[a].inflight <= 1 /\ actors[a].timers <= 1)
    /\ [][\A a \in ActorIds :
            (/\ HoldsConnection(a)
             /\ actors'[a].status = "started"
             /\ actors'[a].state # actors[a].state)
            => /\ actors[a].mailbox # <<>>
               /\ Head(actors[a].mailbox).type = "Disconnected"
               /\ actors'[a].mailbox # actors[a].mailbox
               /\ actors'[a].inflight = actors[a].inflight]_vars

\* the optional attributes of a queue that the claim has sent: all that are
\* set, except a dead-letter routing key without a dead-letter exchange
SentAttributes(q) ==
    {f \in {"_message_ttl", "_expires", "_max_priority", "_max_length",
            "_dead_letter_exchange"} : q[f].some}
    \cup (IF q._dead_letter_exchange.some /\ q._dead_letter_routing_key.some
          THEN {"_dead_letter_routing_key"} ELSE {})

\* C31: applying a Queue issues one queue_declare that is not passive; its
\* argument table has one key per optional attribute sent and no other key,
\* and x-dead-letter-exchange carries the dead-letter exchange, also when a
\* dead-letter routing key is set
QueueDeclareArguments ==
    (Applied /\ item.type = "Queue") =>
        /\ Len(channel) = 1
        /\ channel[1].call = "queue_declare"
        /\ channel[1].queue = item.name
        /\ ~channel[1].options.passive
        /\ Cardinality(DOMAIN channel[1].arguments)
               = Cardinality(SentAttributes(item))
        /\ item._dead_letter_exchange.some =>
               /\ "x-dead-letter-exchange" \in DOMAIN channel[1].arguments
               /\ channel[1].arguments["x-dead-letter-exchange"].value
                      = item._dead_letter_exchange.v

====
